---- MODULE Spec2Model ----
(***************************************************************************)
(* Model of code/part_2.ipynb: the CamemBERT fine-tuning notebook.         *)
(* The state is the kernel's namespace and the objects the cells build;    *)
(* there is one action per code cell, executed top to bottom (the cell     *)
(* that fits the model is split at its three statements: build trainer,   *)
(* fit, reload the best checkpoint; fit advances one epoch per step).      *)
(***************************************************************************)
EXTENDS Integers, Sequences, FiniteSets

\* ------------------------------------------------------------------ bounds
\* number of rows a split may hold beyond a full batch
MaxRem == 1
\* valid/acc is one of the levels 0..MaxAcc
MaxAcc == 6

\* ------------------------------------------------------- program constants
BatchSize == 16
MaxEpochs == 25
Patience == 4
NumClasses == 6
\* model_max_length of the 'camembert-base' tokenizer
ModelMaxLength == 512

\* ------------------------------------------------------------------- state
VARIABLES
  pc,               \* the statement group the kernel executes next
  names,            \* names bound in the kernel's namespace
  errors,           \* the statement groups that raised
  dataset,          \* the DatasetDict: [order, size, long], see Split
  train_dataset, test_dataset, val_dataset,   \* the key of the split each is bound to
  pd_train_cols,    \* columns of pd_dataset["train"]
  num_labels,       \* number of distinct labels of the train split
  printed,          \* the three printed row counts
  train_dataloader, val_dataloader, test_dataloader,
  lightning_model,  \* the weights the variable lightning_model holds
  current_epoch, should_stop,          \* pl.Trainer
  best_score, wait_count,              \* EarlyStopping
  best_model_path, best_model_score,   \* ModelCheckpoint
  ckpt_files,       \* checkpoint files on disk: path -> weights
  collated,         \* what tokenize_batch returned last (shapes)
  camembert_preds, wrong, preds, csv,
  fit_args,         \* the dataloaders handed to fit
  fit_seen,         \* history: keys of the splits whose batches fit consumed
  hist_max,         \* history: greatest valid/acc of the epochs run so far
  hist_streak,      \* history: consecutive epochs that did not exceed it
  hist_first,       \* history: the first epoch whose valid/acc is hist_max
  predict_log       \* history: <<split key, weights>> of each predict call

vars == <<pc, names, errors, dataset, train_dataset, test_dataset, val_dataset,
          pd_train_cols, num_labels, printed, train_dataloader, val_dataloader,
          test_dataloader, lightning_model, current_epoch, should_stop,
          best_score, wait_count, best_model_path, best_model_score,
          ckpt_files, collated, camembert_preds, wrong, preds, csv,
          fit_args, fit_seen, hist_max, hist_streak, hist_first,
          predict_log>>

None == "None"
SplitNames == {"train", "test", "validation"}

\* ------------------------------------------------------------------ helpers
Max(a, b) == IF a >= b THEN a ELSE b
Min(a, b) == IF a <= b THEN a ELSE b

\* the greatest element of a sequence of naturals, 0 when it is empty
SeqMax(s) ==
  LET S == {s[i] : i \in 1..Len(s)}
  IN  IF S = {} THEN 0 ELSE CHOOSE m \in S : \A x \in S : x <= m

RECURSIVE Flatten(_)
Flatten(ss) == IF ss = <<>> THEN <<>> ELSE Head(ss) \o Flatten(Tail(ss))

\* ID_TO_LABEL = dict(zip(range(6), ('A1', ..., 'C2')))
ID_TO_LABEL == [i \in 0..(NumClasses - 1) |->
                  <<"A1", "A2", "B1", "B2", "C1", "C2">>[i + 1]]

\* label_names = list(ID_TO_LABEL.values()); label_names[x] is LabelNames[x + 1]
label_names == [i \in 1..NumClasses |-> ID_TO_LABEL[i - 1]]

\* ----------------------------------------------------------------- dataset
\* sizes a split is loaded with: less than a batch, one batch, more than one
Sizes == {1, BatchSize, BatchSize + MaxRem}
\* the validation split holds more than one batch; every class occurs in it
ValSizes == {BatchSize + MaxRem}
TrainRows == BatchSize + MaxRem + 1

LabelOfRow(i) == (i + (i \div 4)) % NumClasses

\* One split of Makxxx/french_CEFR: rows of sentence, label, difficulty.  A
\* sentence is kept as its identity and the number of tokens the tokenizer
\* cuts it into; with long, the split's last sentence exceeds the model's
\* maximum sequence length.
MkSplit(key, n, long) ==
  [i \in 1..n |->
     [sentence   |-> [key |-> key, idx |-> i,
                      ntok |-> IF long /\ i = n THEN ModelMaxLength + 1
                               ELSE 3 + (i % 5)],
      label      |-> LabelOfRow(i),
      difficulty |-> ID_TO_LABEL[LabelOfRow(i)]]]

SplitOrders ==
  {o \in [1..3 -> SplitNames] : \A i, j \in 1..3 : i # j => o[i] # o[j]}

\* load_dataset(...): a dictionary of the three splits, in the order the hub
\* stores them.  The rows of a split never change, so the dictionary is kept
\* as its order and what determines the rows of each split.
LoadDataset(order, nTest, nVal, long) ==
  [order |-> order,
   size  |-> [k \in SplitNames |->
                CASE k = "train"      -> TrainRows
                  [] k = "test"       -> nTest
                  [] k = "validation" -> nVal],
   long  |-> long]

\* before load_dataset has run
NoDataset == [order |-> <<>>, size |-> [k \in SplitNames |-> 0], long |-> FALSE]

\* d[key]: the rows of a split
Split(d, key) == MkSplit(key, d.size[key], d.long)

\* dataset.values(): the splits in the dictionary's order
DictValues(d) == [i \in 1..3 |-> d.order[i]]

\* ------------------------------------------------------ tokenizer, batches
\* tokenizer(text, padding=..., truncation=...): a row of input_ids and of
\* attention_mask is kept as its length (len) and the number of positions
\* that are not padding (real); every sentence gets <s> ... </s> around it.
Tokenizer(text, padding, truncation) ==
  LET enc == [i \in 1..Len(text) |->
                IF truncation THEN Min(text[i].ntok + 2, ModelMaxLength)
                ELSE text[i].ntok + 2]
      longest == SeqMax(enc)
      row(i) == [len  |-> IF padding = "longest" THEN longest ELSE enc[i],
                 real |-> enc[i]]
  IN  [input_ids      |-> [i \in 1..Len(text) |-> row(i)],
       attention_mask |-> [i \in 1..Len(text) |-> row(i)]]

tokenize_batch(samples) ==
  LET text       == [i \in 1..Len(samples) |-> samples[i].sentence]
      labels     == [i \in 1..Len(samples) |-> samples[i].label]
      str_labels == [i \in 1..Len(samples) |-> samples[i].difficulty]
      tokens     == Tokenizer(text, "longest", FALSE)
  IN  [input_ids |-> tokens.input_ids, attention_mask |-> tokens.attention_mask,
       labels |-> labels, str_labels |-> str_labels, sentences |-> text]

\* DataLoader(dataset[key], batch_size=16, shuffle=..., collate_fn=...)
DataLoader(key, shuffle) ==
  [dataset |-> key, batch_size |-> BatchSize, shuffle |-> shuffle]

\* a loader variable that is not bound yet
NoLoader == [dataset |-> None, batch_size |-> 0, shuffle |-> FALSE]

NumBatches(n, bs) == (n + bs - 1) \div bs

\* the batches a loader without shuffling yields: consecutive runs of rows
Batches(rows, bs) ==
  [b \in 1..NumBatches(Len(rows), bs) |->
     SubSeq(rows, (b - 1) * bs + 1, Min(b * bs, Len(rows)))]

\* what the collate function returned for the last batch of a pass: the
\* length of every row of input_ids and of attention_mask
LastCollated(loader) ==
  LET rows == Split(dataset, loader.dataset)
      nb   == NumBatches(Len(rows), loader.batch_size)
      t    == tokenize_batch(Batches(rows, loader.batch_size)[nb])
      lens(m) == [i \in 1..Len(m) |-> m[i].len]
  IN  [input_ids |-> lens(t.input_ids), attention_mask |-> lens(t.attention_mask)]

NoBatch == [input_ids |-> <<>>, attention_mask |-> <<>>]

\* --------------------------------------------------------- name resolution
Stmt(uses, defs) == [uses |-> uses, defs |-> defs]

\* The statements of each statement group: the global names a statement
\* reads (those of the functions it calls included) and the names it binds.
Stmts ==
  [p \in {"imports", "load", "hist_labels", "hist_len", "prints", "loaders",
          "trainer", "fit", "reload", "val_predict", "confusion", "report",
          "wrong", "submission"} |->
   CASE p = "imports" ->
          << Stmt({}, {"pd"}), Stmt({}, {"AutoTokenizer"}),
             Stmt({}, {"load_dataset"}), Stmt({}, {"sns"}),
             Stmt({}, {"torch"}), Stmt({}, {"DataLoader"}),
             Stmt({}, {"functools"}), Stmt({}, {"LightningModel"}),
             Stmt({}, {"pl"}), Stmt({}, {"confusion_matrix"}),
             Stmt({}, {"plt"}), Stmt({}, {"classification_report"}),
             Stmt({}, {"tokenize_batch"}),
             Stmt({}, {"plot_confusion_matrix"}) >>
     [] p = "load" ->
          << Stmt({"AutoTokenizer"}, {"tokenizer"}),
             Stmt({"load_dataset"}, {"dataset"}),
             Stmt({"dataset"}, {"pd_dataset"}),
             Stmt({"dataset"}, {"train_dataset", "test_dataset", "val_dataset"}),
             Stmt({"pd_dataset"}, {"num_labels"}) >>
     [] p = "hist_labels" ->
          << Stmt({"sns"}, {}), Stmt({"pd_dataset"}, {"nb_labels"}),
             Stmt({"nb_labels"}, {}), Stmt({"pd_dataset", "nb_labels"}, {"ax"}),
             Stmt({"ax"}, {}) >>
     [] p = "hist_len" ->
          << Stmt({"pd_dataset"}, {}), Stmt({"pd_dataset"}, {"ax"}),
             Stmt({"ax"}, {}) >>
     [] p = "prints" ->
          << Stmt({"pd_dataset"}, {}), Stmt({"train_dataset"}, {}),
             Stmt({"test_dataset"}, {}), Stmt({"val_dataset"}, {}) >>
     [] p = "loaders" ->
          << Stmt({"DataLoader", "dataset", "functools", "tokenize_batch",
                   "tokenizer"}, {"train_dataloader"}),
             Stmt({"DataLoader", "dataset", "functools", "tokenize_batch",
                   "tokenizer"}, {"val_dataloader"}) >>
     [] p = "trainer" ->
          << Stmt({"LightningModel", "num_labels"}, {"lightning_model"}),
             Stmt({"pl"}, {"model_checkpoint"}),
             Stmt({"pl", "model_checkpoint"}, {"camembert_trainer"}) >>
     [] p = "fit" ->
          << Stmt({"camembert_trainer", "lightning_model", "train_dataloader",
                   "val_dataloader", "torch"}, {}) >>
     [] p = "reload" ->
          << Stmt({"LightningModel", "model_checkpoint"}, {"lightning_model"}) >>
     [] p = "val_predict" ->
          << Stmt({}, {"ID_TO_LABEL"}), Stmt({"ID_TO_LABEL"}, {"label_names"}),
             Stmt({"camembert_trainer", "lightning_model", "val_dataloader",
                   "torch"}, {"camembert_preds"}),
             Stmt({"torch", "camembert_preds"}, {"camembert_preds"}) >>
     [] p = "confusion" ->
          << Stmt({"plot_confusion_matrix", "dataset", "camembert_preds",
                   "label_names", "confusion_matrix", "plt", "sns"}, {}) >>
     [] p = "report" ->
          << Stmt({"classification_report", "dataset", "camembert_preds",
                   "label_names"}, {}) >>
     [] p = "wrong" ->
          << Stmt({"camembert_preds", "np", "dataset"}, {"wrong_preds"}),
             Stmt({"dataset", "wrong_preds"}, {"wrong"}),
             Stmt({"pd", "camembert_preds", "wrong_preds", "ID_TO_LABEL"},
                  {"preds"}),
             Stmt({"wrong", "preds"}, {}), Stmt({"wrong"}, {}),
             Stmt({"wrong"}, {}) >>
     [] p = "submission" ->
          << Stmt({"DataLoader", "dataset", "functools", "tokenize_batch",
                   "tokenizer"}, {"test_dataloader"}),
             Stmt({"camembert_trainer", "lightning_model", "test_dataloader",
                   "torch"}, {"preds"}),
             Stmt({"torch", "preds"}, {"preds"}),
             Stmt({"dataset"}, {"test_df"}),
             Stmt({"test_df", "preds"}, {}),
             Stmt({"test_df", "label_names"}, {}),
             Stmt({"test_df"}, {}), Stmt({"test_df"}, {}),
             Stmt({"test_df"}, {}) >>]

\* Execute statements in order in namespace ns: a statement that reads an
\* unbound name raises NameError and ends the cell; earlier bindings stay.
RECURSIVE RunStmts(_, _)
RunStmts(stmts, ns) ==
  IF stmts = <<>> THEN [names |-> ns, ok |-> TRUE]
  ELSE IF Head(stmts).uses \subseteq ns
       THEN RunStmts(Tail(stmts), ns \cup Head(stmts).defs)
       ELSE [names |-> ns, ok |-> FALSE]

\* the statement group that follows p when p completes
Succ ==
  [p \in DOMAIN Stmts |->
   CASE p = "imports" -> "load"          [] p = "load" -> "hist_labels"
     [] p = "hist_labels" -> "hist_len"  [] p = "hist_len" -> "prints"
     [] p = "prints" -> "loaders"        [] p = "loaders" -> "trainer"
     [] p = "trainer" -> "fit"           [] p = "fit" -> "reload"
     [] p = "reload" -> "val_predict"    [] p = "val_predict" -> "confusion"
     [] p = "confusion" -> "report"      [] p = "report" -> "wrong"
     [] p = "wrong" -> "submission"      [] p = "submission" -> "done"]

\* the first statement group of the cell after the one p belongs to
CellAfter ==
  [p \in DOMAIN Stmts |->
     IF p \in {"trainer", "fit", "reload"} THEN "val_predict" ELSE Succ[p]]

Ran(p) == RunStmts(Stmts[p], names)

\* Control after statement group p: on success the next group; on an
\* exception the cell is abandoned, and the run either stops there (Run All)
\* or goes on with the next cell (cells executed one by one).
Advance(p, ok) ==
  /\ names' = Ran(p).names
  /\ IF ok
     THEN pc' = Succ[p] /\ errors' = errors
     ELSE errors' = errors \cup {p} /\ pc' \in {"halted", CellAfter[p]}

\* ------------------------------------------------------------ fit callbacks
\* the score no epoch has: -inf for mode="max"
NoScore == 0 - 1
\* best_model_path before any checkpoint is written
NoPath == 0

\* the weights of a model, known by the epoch that produced them
Weights(epoch) == [epoch |-> epoch]
\* LightningModel("camembert-base", num_labels, ...): the pretrained weights
Pretrained == Weights(0)

\* EarlyStopping(monitor="valid/acc", patience=4, mode="max"): the monitor
\* improves when it is strictly greater than the best score (min_delta = 0)
EarlyStoppingNotWorse(current, best) == current >= best

EarlyStoppingImproved(current, best) == current > best

EarlyStoppingCheck(current, best, wait) ==
  IF EarlyStoppingImproved(current, best)
  THEN [best_score |-> current, wait_count |-> 0, should_stop |-> FALSE]
  ELSE [best_score |-> best, wait_count |-> wait + 1,
        should_stop |-> wait + 1 >= Patience]

\* ModelCheckpoint(monitor="valid/acc", mode="max"), save_top_k = 1: a
\* checkpoint is written when there is none yet or the monitor is strictly
\* greater than the kept one's score; the one it replaces is deleted
CheckpointImproved(current, path, score) == path = NoPath \/ current > score

CheckpointSave(w, current, path, score, files) ==
  IF CheckpointImproved(current, path, score)
  THEN [best_model_path |-> w.epoch, best_model_score |-> current,
        ckpt_files |-> [q \in {w.epoch} |-> w]]
  ELSE [best_model_path |-> path, best_model_score |-> score,
        ckpt_files |-> files]

\* LightningModel.load_from_checkpoint(checkpoint_path=path)
LoadFromCheckpoint(path, files) == files[path]

\* ---------------------------------------------------------------- predict
\* The labels one predict step returns for a collated batch: one per
\* sentence, each below num_labels, determined by the weights w and the
\* sentence (the classifier is deterministic; different weights answer
\* differently).
PredictStep(batch, w, nl) ==
  [j \in 1..Len(batch.sentences) |->
     (w.epoch + batch.sentences[j].idx) % nl]

\* camembert_trainer.predict(model, dataloaders=loader): one result per batch
Predict(loader, w, nl) ==
  LET bs == Batches(Split(dataset, loader.dataset), loader.batch_size)
  IN  [b \in 1..Len(bs) |-> PredictStep(tokenize_batch(bs[b]), w, nl)]

\* torch.cat(list of 1-d tensors, -1)
TorchCat(tensors) == Flatten(tensors)

\* ------------------------------------------------------------- data frames
\* Dataset.to_pandas(): a RangeIndex 0..n-1 and the dataset's columns
ToPandas(rows) ==
  [index_name |-> None,
   index      |-> [i \in 1..Len(rows) |-> i - 1],
   columns    |-> <<"sentence", "label", "difficulty">>,
   data       |-> rows]

RECURSIVE SelectIdx(_, _, _)
\* the positions i..n at which mask is true, in order
SelectIdx(mask, i, n) ==
  IF i > n THEN <<>>
  ELSE (IF mask[i] THEN <<i>> ELSE <<>>) \o SelectIdx(mask, i + 1, n)

\* df[mask]: the rows where the boolean mask is true, keeping their index
BoolSelect(df, mask) ==
  LET at == SelectIdx(mask, 1, Len(mask))
  IN  [df EXCEPT !.index = [k \in 1..Len(at) |-> df.index[at[k]]],
                 !.data  = [k \in 1..Len(at) |-> df.data[at[k]]]]

\* df[cols]
Project(df, cols) ==
  [df EXCEPT !.columns = cols,
             !.data = [k \in 1..Len(df.data) |->
                         [c \in {cols[j] : j \in 1..Len(cols)} |-> df.data[k][c]]]]

\* df.drop(columns=dropped)
DropColumns(df, dropped) ==
  Project(df, SelectSeq(df.columns, LAMBDA c : c \notin dropped))

\* df.to_csv(path): a header line and one line per row, the index first
ToCsv(df) ==
  [header |-> <<df.index_name>> \o df.columns,
   rows   |-> [k \in 1..Len(df.data) |->
                 <<df.index[k]>> \o
                 [j \in 1..Len(df.columns) |-> df.data[k][df.columns[j]]]]]

NoCsv == [header |-> <<>>, rows |-> <<>>]

\* The submission frame: label is overwritten with the predictions,
\* difficulty with their names, the index is named id, sentence and label
\* are dropped.
SubmissionFrameStale(rows, p) ==
  LET df0 == ToPandas(rows)
      df1 == [df0 EXCEPT !.data = [k \in 1..Len(rows) |->
                                     [df0.data[k] EXCEPT !.label = p[k]]]]
      df3 == [df1 EXCEPT !.index_name = "id"]
  IN  DropColumns(df3, {"sentence", "label"})

SubmissionFrame(rows, p) ==
  LET df0 == ToPandas(rows)
      df1 == [df0 EXCEPT !.data = [k \in 1..Len(rows) |->
                                     [df0.data[k] EXCEPT !.label = p[k]]]]
      df2 == [df1 EXCEPT !.data = [k \in 1..Len(rows) |->
                                     [df1.data[k] EXCEPT !.difficulty =
                                        label_names[df1.data[k].label + 1]]]]
      df3 == [df2 EXCEPT !.index_name = "id"]
  IN  DropColumns(df3, {"sentence", "label"})

\* The table of the wrongly classified validation sentences.
WrongTable(rows, cp) ==
  LET wrong_preds == [i \in 1..Len(rows) |-> cp[i] # rows[i].label]
      wrong0 == BoolSelect(Project(ToPandas(rows), <<"sentence", "difficulty">>),
                           wrong_preds)
      series == [index |-> [i \in 1..Len(cp) |-> i - 1],
                 data  |-> [i \in 1..Len(cp) |-> ID_TO_LABEL[cp[i]]]]
      at     == SelectIdx(wrong_preds, 1, Len(wrong_preds))
      preds1 == [index |-> [k \in 1..Len(at) |-> series.index[at[k]]],
                 data  |-> [k \in 1..Len(at) |-> series.data[at[k]]]]
      \* wrong["preds"] = preds aligns the series on the frame's index
      lookup(ix) == LET ks == {k \in 1..Len(preds1.index) : preds1.index[k] = ix}
                    IN  IF ks = {} THEN "NaN" ELSE preds1.data[CHOOSE k \in ks : TRUE]
  IN  [index   |-> wrong0.index,
       columns |-> <<"sentence", "true", "predicted">>,
       data    |-> [k \in 1..Len(wrong0.data) |->
                      [sentence  |-> wrong0.data[k].sentence,
                       true      |-> wrong0.data[k].difficulty,
                       predicted |-> lookup(wrong0.index[k])]]]

NoTable == [index |-> <<>>, columns |-> <<>>, data |-> <<>>]

\* ------------------------------------------------------------------- Init
gData    == <<dataset, train_dataset, test_dataset, val_dataset, num_labels>>
gLoaders == <<train_dataloader, val_dataloader>>
gFit     == <<current_epoch, should_stop, best_score, wait_count,
              best_model_path, best_model_score, ckpt_files, fit_args,
              fit_seen, hist_max, hist_streak, hist_first>>
gOut     == <<camembert_preds, wrong, preds, csv, test_dataloader>>

Init ==
  /\ pc = "imports" /\ names = {} /\ errors = {}
  /\ dataset = NoDataset
  /\ train_dataset = None /\ test_dataset = None /\ val_dataset = None
  /\ pd_train_cols = {} /\ num_labels = 0 /\ printed = <<>>
  /\ train_dataloader = NoLoader /\ val_dataloader = NoLoader
  /\ test_dataloader = NoLoader
  /\ lightning_model = Pretrained
  /\ current_epoch = 0 /\ should_stop = FALSE
  /\ best_score = NoScore /\ wait_count = 0
  /\ best_model_path = NoPath /\ best_model_score = NoScore
  /\ ckpt_files = <<>>
  /\ collated = NoBatch
  /\ camembert_preds = <<>> /\ wrong = NoTable /\ preds = <<>> /\ csv = NoCsv
  /\ fit_args = [train |-> NoLoader, val |-> NoLoader] /\ fit_seen = {}
  /\ hist_max = NoScore /\ hist_streak = 0 /\ hist_first = 0
  /\ predict_log = <<>>

\* ------------------------------------------------------------------ cells
\* imports, tokenize_batch, plot_confusion_matrix
ImportsCell ==
  /\ pc = "imports"
  /\ Advance("imports", Ran("imports").ok)
  /\ UNCHANGED <<gData, gLoaders, gFit, gOut, pd_train_cols, printed,
                 lightning_model, collated, predict_log>>

\* tokenizer, dataset, pd_dataset, the three split variables, num_labels
LoadCell ==
  /\ pc = "load"
  /\ Advance("load", Ran("load").ok)
  /\ IF Ran("load").ok
     THEN \E order \in SplitOrders, nTest \in Sizes, nVal \in ValSizes,
             long \in BOOLEAN :
            LET d == LoadDataset(order, nTest, nVal, long)
                v == DictValues(d)
                tr == Split(d, "train")
            IN  /\ dataset' = d
                /\ train_dataset' = v[1]
                /\ test_dataset' = v[2]
                /\ val_dataset' = v[3]
                /\ pd_train_cols' = {"sentence", "label", "difficulty"}
                /\ num_labels' = Cardinality({tr[i].label : i \in 1..Len(tr)})
     ELSE UNCHANGED <<gData, pd_train_cols>>
  /\ UNCHANGED <<gLoaders, gFit, gOut, printed, lightning_model, collated,
                 predict_log>>

\* histogram of the labels of the train split
HistLabelsCell ==
  /\ pc = "hist_labels"
  /\ Advance("hist_labels", Ran("hist_labels").ok)
  /\ UNCHANGED <<gData, gLoaders, gFit, gOut, pd_train_cols, printed,
                 lightning_model, collated, predict_log>>

\* adds the column len_sen to pd_dataset["train"] and plots it
HistLenCell ==
  /\ pc = "hist_len"
  /\ Advance("hist_len", Ran("hist_len").ok)
  /\ pd_train_cols' = IF Ran("hist_len").ok THEN pd_train_cols \cup {"len_sen"}
                      ELSE pd_train_cols
  /\ UNCHANGED <<gData, gLoaders, gFit, gOut, printed, lightning_model,
                 collated, predict_log>>

\* prints the row counts of train_dataset, test_dataset, val_dataset
PrintsCell ==
  /\ pc = "prints"
  /\ LET ok == Ran("prints").ok /\ "len_sen" \in pd_train_cols
     IN  /\ Advance("prints", ok)
         /\ printed' = IF ok
                       THEN << Len(Split(dataset, train_dataset)),
                               Len(Split(dataset, test_dataset)),
                               Len(Split(dataset, val_dataset)) >>
                       ELSE printed
  /\ UNCHANGED <<gData, gLoaders, gFit, gOut, pd_train_cols, lightning_model,
                 collated, predict_log>>

\* the split each loader of the fit reads
TrainLoaderSplit == "train"
ValLoaderSplitVar == val_dataset
\* dataset["validation"]
ValLoaderSplit == "validation"

\* train_dataloader and val_dataloader
LoadersCell ==
  /\ pc = "loaders"
  /\ Advance("loaders", Ran("loaders").ok)
  /\ IF Ran("loaders").ok
     THEN /\ train_dataloader' = DataLoader(TrainLoaderSplit, TRUE)
          /\ val_dataloader' = DataLoader(ValLoaderSplit, FALSE)
     ELSE UNCHANGED gLoaders
  /\ UNCHANGED <<gData, gFit, gOut, pd_train_cols, printed, lightning_model,
                 collated, predict_log>>

\* lightning_model, model_checkpoint, camembert_trainer
TrainerStmts ==
  /\ pc = "trainer"
  /\ Advance("trainer", Ran("trainer").ok)
  /\ IF Ran("trainer").ok
     THEN /\ lightning_model' = Pretrained
          /\ current_epoch' = 0 /\ should_stop' = FALSE
          /\ best_score' = NoScore /\ wait_count' = 0
          /\ best_model_path' = NoPath /\ best_model_score' = NoScore
          /\ ckpt_files' = <<>>
     ELSE UNCHANGED <<lightning_model, current_epoch, should_stop, best_score,
                      wait_count, best_model_path, best_model_score, ckpt_files>>
  /\ UNCHANGED <<gData, gLoaders, gOut, pd_train_cols, printed, collated,
                 predict_log, fit_args, fit_seen, hist_max, hist_streak,
                 hist_first>>

\* One epoch of camembert_trainer.fit: a pass over the training loader, a
\* pass over the validation loader that logs valid/acc, then the callbacks.
FitEpoch ==
  /\ pc = "fit" /\ Ran("fit").ok
  /\ ~should_stop /\ current_epoch < MaxEpochs
  /\ current_epoch' = current_epoch + 1
  /\ fit_args' = [train |-> train_dataloader, val |-> val_dataloader]
  /\ fit_seen' = fit_seen \cup {train_dataloader.dataset, val_dataloader.dataset}
  /\ collated' = LastCollated(val_dataloader)
  /\ \E acc \in 0..MaxAcc :
       LET w  == Weights(current_epoch + 1)
           es == EarlyStoppingCheck(acc, best_score, wait_count)
           mc == CheckpointSave(w, acc, best_model_path, best_model_score,
                                ckpt_files)
       IN  /\ lightning_model' = w
           /\ best_score' = es.best_score
           /\ wait_count' = es.wait_count
           /\ should_stop' = es.should_stop
           /\ best_model_path' = mc.best_model_path
           /\ best_model_score' = mc.best_model_score
           /\ ckpt_files' = mc.ckpt_files
           /\ hist_streak' = IF acc > hist_max THEN 0 ELSE hist_streak + 1
           /\ hist_first' = IF acc > hist_max THEN current_epoch + 1
                            ELSE hist_first
           /\ hist_max' = Max(hist_max, acc)
  /\ UNCHANGED <<pc, names, errors, gData, gLoaders, gOut, pd_train_cols,
                 printed, predict_log>>

\* fit returns: early stopping asked for it or max_epochs is reached
FitEnd ==
  /\ pc = "fit"
  /\ ~Ran("fit").ok \/ should_stop \/ current_epoch >= MaxEpochs
  /\ Advance("fit", Ran("fit").ok)
  /\ UNCHANGED <<gData, gLoaders, gFit, gOut, pd_train_cols, printed,
                 lightning_model, collated, predict_log>>

KeepLast == lightning_model

\* the weights bound to lightning_model after the fit
LoadBest == LoadFromCheckpoint(best_model_path, ckpt_files)

\* lightning_model = LightningModel.load_from_checkpoint(best_model_path)
ReloadStmt ==
  /\ pc = "reload"
  /\ Advance("reload", Ran("reload").ok)
  /\ lightning_model' = IF Ran("reload").ok THEN LoadBest ELSE lightning_model
  /\ UNCHANGED <<gData, gLoaders, gFit, gOut, pd_train_cols, printed, collated,
                 predict_log>>

\* ID_TO_LABEL, label_names, predictions on the validation loader
ValPredictCell ==
  /\ pc = "val_predict"
  /\ Advance("val_predict", Ran("val_predict").ok)
  /\ IF Ran("val_predict").ok
     THEN /\ camembert_preds' =
               TorchCat(Predict(val_dataloader, lightning_model, num_labels))
          /\ collated' = LastCollated(val_dataloader)
          /\ predict_log' = Append(predict_log,
                              [split |-> val_dataloader.dataset,
                               model |-> lightning_model])
     ELSE UNCHANGED <<camembert_preds, collated, predict_log>>
  /\ UNCHANGED <<gData, gLoaders, gFit, pd_train_cols, printed, lightning_model,
                 wrong, preds, csv, test_dataloader>>

\* plot_confusion_matrix(...)
ConfusionCell ==
  /\ pc = "confusion"
  /\ Advance("confusion", Ran("confusion").ok)
  /\ UNCHANGED <<gData, gLoaders, gFit, gOut, pd_train_cols, printed,
                 lightning_model, collated, predict_log>>

\* the classes classification_report finds in the labels and predictions
ReportClasses ==
  LET rows == Split(dataset, "validation")
  IN  {rows[i].label : i \in 1..Len(rows)}
        \cup {camembert_preds[i] : i \in 1..Len(camembert_preds)}

\* print(classification_report(..., target_names=label_names)): raises when
\* the classes found are not as many as the target names
ReportCell ==
  /\ pc = "report"
  /\ Advance("report", Ran("report").ok
                         /\ Cardinality(ReportClasses) = Len(label_names))
  /\ UNCHANGED <<gData, gLoaders, gFit, gOut, pd_train_cols, printed,
                 lightning_model, collated, predict_log>>

\* the table of wrongly classified validation sentences
WrongCell ==
  /\ pc = "wrong"
  /\ Advance("wrong", Ran("wrong").ok)
  /\ IF Ran("wrong").ok
     THEN LET t == WrongTable(Split(dataset, "validation"), camembert_preds)
          IN  /\ wrong' = t
              /\ preds' = [k \in 1..Len(t.data) |-> t.data[k].predicted]
     ELSE UNCHANGED <<wrong, preds>>
  /\ UNCHANGED <<gData, gLoaders, gFit, pd_train_cols, printed, lightning_model,
                 collated, predict_log, camembert_preds, csv, test_dataloader>>

TestLoaderSplit == "test"

\* test_dataloader, predictions on it, the submission frame, preds.csv
SubmissionCell ==
  /\ pc = "submission"
  /\ Advance("submission", Ran("submission").ok)
  /\ IF Ran("submission").ok
     THEN LET loader == DataLoader(TestLoaderSplit, FALSE)
              p      == TorchCat(Predict(loader, lightning_model, num_labels))
          IN  /\ test_dataloader' = loader
              /\ preds' = p
              /\ collated' = LastCollated(loader)
              /\ predict_log' = Append(predict_log,
                                  [split |-> loader.dataset,
                                   model |-> lightning_model])
              /\ csv' = ToCsv(SubmissionFrame(Split(dataset, "test"), p))
     ELSE UNCHANGED <<test_dataloader, preds, collated, predict_log, csv>>
  /\ UNCHANGED <<gData, gLoaders, gFit, pd_train_cols, printed, lightning_model,
                 camembert_preds, wrong>>

Next ==
  \/ ImportsCell \/ LoadCell \/ HistLabelsCell \/ HistLenCell \/ PrintsCell
  \/ LoadersCell \/ TrainerStmts \/ FitEpoch \/ FitEnd \/ ReloadStmt
  \/ ValPredictCell \/ ConfusionCell \/ ReportCell \/ WrongCell
  \/ SubmissionCell

Spec == Init /\ [][Next]_vars

TypeOK == pc \in DOMAIN Stmts \cup {"done", "halted"}

\* ================================================================ claims
AfterFit == {"reload", "val_predict", "confusion", "report", "wrong",
             "submission", "done"}
AfterReload == AfterFit \ {"reload"}
FitCellOk == errors \cap {"trainer", "fit", "reload"} = {}
TestPredicted ==
  \E i \in 1..Len(predict_log) : predict_log[i].split = "test"
CsvWritten == pc = "done" /\ "submission" \notin errors

\* the label the weights w give the i-th row of rows, asked for on its own
PredictionFor(rows, i, w) ==
  PredictStep([sentences |-> <<rows[i].sentence>>], w, num_labels)[1]

SixNames == {"A1", "A2", "B1", "B2", "C1", "C2"}

\* C1: once preds.csv is written it has one row per test row, indexed by
\* id = 0..n-1 in the order of the test split; row i carries the name of the
\* label predicted for the i-th test sentence; every difficulty is one of the
\* six level names; sentence and label are not exported.
C1_SubmissionCsv ==
  CsvWritten =>
    LET rows == Split(dataset, "test")
        w    == predict_log[Len(predict_log)].model
    IN  /\ csv.header = <<"id", "difficulty">>
        /\ Len(csv.rows) = Len(rows)
        /\ \A i \in 1..Len(rows) :
             /\ csv.rows[i] = <<i - 1, label_names[PredictionFor(rows, i, w) + 1]>>
             /\ csv.rows[i][2] \in SixNames

C1_Witness ==
  /\ CsvWritten
  /\ Len(csv.rows) = BatchSize + MaxRem
  /\ \E i \in 1..Len(csv.rows) :
       csv.rows[i][2] # Split(dataset, "test")[i].difficulty

\* C2: a run top to bottom raises in no cell.
C2_NoCellRaises == errors = {} /\ pc # "halted"

\* C3: fit is handed the train split as training data and the validation
\* split as validation data and consumes batches of no other split; a
\* prediction on the test split is made only once the fit cell has completed
\* and with the reloaded best checkpoint.
C3_TestHeldOut ==
  /\ fit_seen \subseteq {"train", "validation"}
  /\ current_epoch >= 1 =>
       /\ fit_args.train.dataset = "train"
       /\ fit_args.val.dataset = "validation"
  /\ TestPredicted =>
       /\ pc \in {"done", "halted"} /\ FitCellOk
       /\ \A i \in 1..Len(predict_log) :
            predict_log[i].model = ckpt_files[best_model_path]

C3_Witness ==
  /\ pc = "done" /\ TestPredicted
  /\ fit_seen = {"train", "validation"}
  /\ val_dataset = "test"

\* C4: whatever the order of the splits in the dictionary, train_dataset,
\* test_dataset and val_dataset are the train, test and validation splits,
\* and the printed row counts are those of the same-named splits.
C4_SplitVariables ==
  "dataset" \in names =>
    /\ train_dataset = "train"
    /\ test_dataset = "test"
    /\ val_dataset = "validation"
    /\ printed # <<>> =>
         printed = << dataset.size["train"], dataset.size["test"],
                      dataset.size["validation"] >>

\* C5: every row of the input_ids and attention_mask tokenize_batch returns
\* is at most the model's maximum sequence length long.
C5_Truncated ==
  /\ \A i \in 1..Len(collated.input_ids) :
       collated.input_ids[i] <= ModelMaxLength
  /\ \A i \in 1..Len(collated.attention_mask) :
       collated.attention_mask[i] <= ModelMaxLength

C6_Inv ==
  /\ current_epoch <= MaxEpochs
  /\ hist_streak <= Patience
  /\ pc = "fit" => (should_stop <=> hist_streak >= Patience)
  /\ (pc \in AfterFit /\ "fit" \notin errors /\ current_epoch < MaxEpochs)
       => hist_streak = Patience

\* C6: fit runs at most 25 epochs; no epoch is run once valid/acc has failed
\* to exceed its best value for 4 consecutive epochs; fit ends before the
\* 25th epoch only then; and fit ends: every step that does not return from
\* it counts one more epoch towards the 25.
C6_FitTerminates ==
  /\ []C6_Inv
  /\ [][hist_streak >= Patience => current_epoch' = current_epoch]_vars
  /\ [][(pc = "fit" /\ pc' = "fit") => current_epoch' = current_epoch + 1]_vars

C6_Witness ==
  /\ pc = "reload" /\ should_stop
  /\ current_epoch < MaxEpochs
  /\ current_epoch > 2 * Patience

\* C7: after every validation epoch best_model_path names the checkpoint of
\* an epoch whose valid/acc is the greatest of the epochs run so far (the
\* first such epoch, holding that epoch's weights); the
\* model bound to lightning_model after the fit, and used by the validation
\* and the test predictions, is that checkpoint's.
C7_BestCheckpoint ==
  /\ (current_epoch >= 1) =>
       /\ best_model_path \in DOMAIN ckpt_files
       /\ best_model_path \in 1..current_epoch
       /\ best_model_score = hist_max
       /\ ckpt_files[best_model_path] = Weights(hist_first)
  /\ (pc \in AfterReload /\ FitCellOk) =>
       lightning_model = ckpt_files[best_model_path]
  /\ \A i \in 1..Len(predict_log) :
       predict_log[i].model = Weights(hist_first)

C7_Witness ==
  /\ pc = "done" /\ Len(predict_log) = 2
  /\ predict_log[1].split = "validation" /\ predict_log[2].split = "test"
  /\ lightning_model.epoch < current_epoch
  /\ current_epoch = MaxEpochs

\* the rows the table of wrong classifications must hold
ExpectedWrong ==
  LET rows == Split(dataset, "validation")
  IN  {[index |-> i - 1, sentence |-> rows[i].sentence,
        true |-> rows[i].difficulty, predicted |-> ID_TO_LABEL[camembert_preds[i]]] :
         i \in {j \in 1..Len(rows) : camembert_preds[j] # rows[j].label}}

\* C8: once the cell of the wrong classifications has been executed, the
\* table holds exactly the validation rows whose prediction differs from
\* their label, each with its sentence, its true difficulty and the name of
\* its prediction, under the columns sentence, true, predicted.
C8_WrongTable ==
  (pc \in {"submission", "done"} \/ "wrong" \in errors) =>
    /\ wrong.columns = <<"sentence", "true", "predicted">>
    /\ Len(wrong.data) = Cardinality(ExpectedWrong)
    /\ {[index |-> wrong.index[k], sentence |-> wrong.data[k].sentence,
         true |-> wrong.data[k].true, predicted |-> wrong.data[k].predicted] :
          k \in 1..Len(wrong.data)} = ExpectedWrong

====
